---------------------------- MODULE Spec2Model ----------------------------
(***************************************************************************)
(* Summation-by-parts finite difference operators (guer7/sbp, python):     *)
(* periodic explicit / implicit operators (periodic.py) and upwind         *)
(* operators with boundary closures (upwind.py).                           *)
(*                                                                         *)
(* The python code computes with IEEE doubles.  Every number of the code   *)
(* is a rational literal or is obtained from rational literals by + - * /, *)
(* so the model computes with exact rationals: a number is a record        *)
(* [sg, num, den] with sign sg in {-1,0,1} and magnitudes num, den that    *)
(* are arbitrary-size naturals (sequences of base-10000 limbs, least       *)
(* significant first; TLC's own integers have 32 bits and the tables of    *)
(* upwind.py and periodic_imp need up to 31 decimal digits).               *)
(* Arrays are functions on 0..m-1, as numpy indexes them.                  *)
(***************************************************************************)
EXTENDS Integers, Sequences, FiniteSets, Bags, TLC

----------------------------------------------------------------------------
(* Arbitrary-size naturals: sequences of limbs in 0..9999, least            *)
(* significant limb first, no leading zero limb; zero is << >>.             *)

\* limb i of a, zero beyond its length
Limb(a, i) == IF i <= Len(a) THEN a[i] ELSE 0

SetMax(S) == CHOOSE i \in S : \A k \in S : k <= i

\* a without its leading zero limbs
MagTrim(a) ==
  LET nz == {i \in 1 .. Len(a) : a[i] # 0}
  IN  IF nz = {} THEN << >> ELSE SubSeq(a, 1, SetMax(nz))

\* -1, 0, 1 as a < b, a = b, a > b
MagCmp(a, b) ==
  IF Len(a) < Len(b) THEN -1
  ELSE IF Len(a) > Len(b) THEN 1
  ELSE LET df == {i \in 1 .. Len(a) : a[i] # b[i]}
       IN  IF df = {} THEN 0
           ELSE IF a[SetMax(df)] < b[SetMax(df)] THEN -1 ELSE 1

MagToInt(a) ==
  IF a = << >> THEN 0
  ELSE IF Len(a) = 1 THEN a[1]
  ELSE IF Len(a) = 2 THEN a[1] + 10000 * a[2]
  ELSE a[1] + 10000 * a[2] + 100000000 * a[3]

RECURSIVE IntToMag(_)
IntToMag(n) == IF n = 0 THEN << >> ELSE <<n % 10000>> \o IntToMag(n \div 10000)

\* a + b: limb i receives a carry when a lower limb overflows and every limb
\* in between is 9999
MagAdd(a, b) ==
  IF a = << >> THEN b
  ELSE IF b = << >> THEN a
  ELSE IF Len(a) <= 2 /\ Len(b) <= 2 THEN IntToMag(MagToInt(a) + MagToInt(b))
  ELSE
  LET n == IF Len(a) > Len(b) THEN Len(a) ELSE Len(b)
      s == [i \in 1 .. n |-> Limb(a, i) + Limb(b, i)]
      cin(i) == IF \E j \in 1 .. i - 1 :
                     s[j] >= 10000 /\ \A k \in j + 1 .. i - 1 : s[k] = 9999
                THEN 1 ELSE 0
      r == [i \in 1 .. n |-> (s[i] + cin(i)) % 10000]
  IN  IF cin(n + 1) = 1 THEN Append(r, 1) ELSE SubSeq(r, 1, n)

\* a - b for a >= b: limb i lends when a lower limb is negative and every
\* limb in between is 0
MagSub(a, b) ==
  IF Len(a) <= 2 THEN IntToMag(MagToInt(a) - MagToInt(b))
  ELSE
  LET d == [i \in 1 .. Len(a) |-> a[i] - Limb(b, i)]
      bin(i) == IF \E j \in 1 .. i - 1 :
                     d[j] < 0 /\ \A k \in j + 1 .. i - 1 : d[k] = 0
                THEN 1 ELSE 0
  IN  MagTrim([i \in 1 .. Len(a) |-> (d[i] - bin(i) + 10000) % 10000])

\* the sum of the values of f, a function with naturals as values
Sum(f) == BagCardinality([i \in DOMAIN f |-> f[i] + 1]) - Cardinality(DOMAIN f)

\* a * b: column n collects the low halves of the limb products a[i]*b[j]
\* with i+j-1 = n and the high halves of those with i+j-1 = n-1
MagMul(a, b) ==
  IF a = << >> \/ b = << >> THEN << >>
  ELSE IF Len(a) = 1 /\ Len(b) = 1 THEN IntToMag(a[1] * b[1])
  ELSE
    LET la == Len(a)
        lb == Len(b)
        Pairs(n) == {i \in 1 .. la : 1 <= n + 1 - i /\ n + 1 - i <= lb}
        Col(n) == Sum([i \in Pairs(n) |-> (a[i] * b[n + 1 - i]) % 10000])
                  + Sum([i \in Pairs(n - 1) |-> (a[i] * b[n - i]) \div 10000])
        T == SubSeq([n \in 1 .. la + lb |-> Col(n)], 1, la + lb)
    IN  MagTrim(MagAdd(SubSeq([n \in 1 .. la + lb |-> T[n] % 10000], 1, la + lb),
                       <<0>> \o [n \in 1 .. la + lb |-> T[n] \div 10000]))

\* a magnitude below 2^31 can be handled as a TLC integer
MagFits(a) == Len(a) <= 2 \/ (Len(a) = 3 /\ a[3] <= 20)

RECURSIVE Gcd(_, _)
Gcd(a, b) == IF b = 0 THEN a ELSE Gcd(b, a % b)

Reverse(s) == [i \in 1 .. Len(s) |-> s[Len(s) + 1 - i]]

\* the natural written in decimal as groups of four digits, e.g.
\* 79604458492699 is Dec(<<79, 6044, 5849, 2699>>)
Dec(groups) == MagTrim(Reverse(groups))

----------------------------------------------------------------------------
(* Rationals.  Small ones (numerator and denominator below 2^31) are kept   *)
(* in lowest terms; equality is always decided by cross multiplication.    *)

Zero == [sg |-> 0, num |-> << >>, den |-> <<1>>]
One  == [sg |-> 1, num |-> <<1>>, den |-> <<1>>]

RatNorm(r) ==
  IF r.sg = 0 \/ r.num = << >> THEN Zero
  ELSE IF MagFits(r.num) /\ MagFits(r.den)
       THEN LET n == MagToInt(r.num)
                d == MagToInt(r.den)
                g == Gcd(n, d)
            IN  [sg |-> r.sg, num |-> IntToMag(n \div g), den |-> IntToMag(d \div g)]
       ELSE r

\* a/b for TLC integers a and b > 0
Frac(a, b) ==
  RatNorm([sg |-> IF a < 0 THEN -1 ELSE IF a = 0 THEN 0 ELSE 1,
           num |-> IntToMag(IF a < 0 THEN -a ELSE a), den |-> IntToMag(b)])

RatInt(a) == Frac(a, 1)

\* sign * n/d for decimal-group literals n and d
BigFrac(sign, n, d) == RatNorm([sg |-> sign, num |-> Dec(n), den |-> Dec(d)])

RatNeg(x) == [x EXCEPT !.sg = -x.sg]

RatIsZero(x) == x.sg = 0

\* sum of two signed magnitudes, as [sg, num]
SignedAdd(s1, a, s2, b) ==
  IF s1 = 0 THEN [sg |-> s2, num |-> b]
  ELSE IF s2 = 0 THEN [sg |-> s1, num |-> a]
  ELSE IF s1 = s2 THEN [sg |-> s1, num |-> MagAdd(a, b)]
  ELSE LET c == MagCmp(a, b)
       IN  IF c = 0 THEN [sg |-> 0, num |-> << >>]
           ELSE IF c > 0 THEN [sg |-> s1, num |-> MagSub(a, b)]
           ELSE [sg |-> s2, num |-> MagSub(b, a)]

RatAdd(x, y) ==
  IF x.sg = 0 THEN y
  ELSE IF y.sg = 0 THEN x
  ELSE IF x.den = y.den
       THEN LET s == SignedAdd(x.sg, x.num, y.sg, y.num)
            IN  RatNorm([sg |-> s.sg, num |-> s.num, den |-> x.den])
  ELSE IF MagFits(x.den) /\ MagFits(y.den)
       THEN LET dx == MagToInt(x.den)
                dy == MagToInt(y.den)
                g  == Gcd(dx, dy)
                fx == IntToMag(dy \div g)
                fy == IntToMag(dx \div g)
                s  == SignedAdd(x.sg, MagMul(x.num, fx), y.sg, MagMul(y.num, fy))
            IN  RatNorm([sg |-> s.sg, num |-> s.num, den |-> MagMul(x.den, fx)])
  ELSE LET s == SignedAdd(x.sg, MagMul(x.num, y.den), y.sg, MagMul(y.num, x.den))
       IN  RatNorm([sg |-> s.sg, num |-> s.num, den |-> MagMul(x.den, y.den)])

RatSub(x, y) == RatAdd(x, RatNeg(y))

RatMul(x, y) ==
  IF x.sg = 0 \/ y.sg = 0 THEN Zero
  ELSE IF MagFits(x.num) /\ MagFits(x.den) /\ MagFits(y.num) /\ MagFits(y.den)
       THEN LET a == MagToInt(x.num)
                b == MagToInt(x.den)
                c == MagToInt(y.num)
                d == MagToInt(y.den)
                g1 == Gcd(a, d)
                g2 == Gcd(c, b)
            IN  [sg |-> x.sg * y.sg,
                 num |-> MagMul(IntToMag(a \div g1), IntToMag(c \div g2)),
                 den |-> MagMul(IntToMag(b \div g2), IntToMag(d \div g1))]
  ELSE RatNorm([sg |-> x.sg * y.sg, num |-> MagMul(x.num, y.num),
                den |-> MagMul(x.den, y.den)])

\* 1/x for x # 0
RatInv(x) == [sg |-> x.sg, num |-> x.den, den |-> x.num]

RatDiv(x, y) == RatMul(x, RatInv(y))

RatEq(x, y) ==
  /\ x.sg = y.sg
  /\ \/ x.sg = 0
     \/ x.num = y.num /\ x.den = y.den
     \/ MagMul(x.num, y.den) = MagMul(y.num, x.den)

----------------------------------------------------------------------------
(* numpy arrays: vectors are functions on 0..m-1, matrices vectors of rows. *)

\* numpy computes the entries of an array when the array is made: the
\* comparison makes TLC compute and keep them, the value is A either way
Stored(A) == IF A = A THEN A ELSE A

\* the array with the elements of the sequence s
Arr(s) == Stored([i \in 0 .. Len(s) - 1 |-> s[i + 1]])

Size(v) == Cardinality(DOMAIN v)

\* np.zeros(m), np.ones(m)
Zeros(m) == Stored([i \in 0 .. m - 1 |-> Zero])
Ones(m) == Stored([i \in 0 .. m - 1 |-> One])

\* np.eye(m)
Eye(m) ==
  Stored([i \in 0 .. m - 1 |-> [j \in 0 .. m - 1 |-> IF i = j THEN One ELSE Zero]])

\* np.diag(v, k) of a vector v: the square matrix of size len(v)+|k| with v
\* on the k-th diagonal
DiagK(v, k) ==
  LET n == Size(v) + (IF k < 0 THEN -k ELSE k)
  IN  Stored([i \in 0 .. n - 1 |-> [j \in 0 .. n - 1 |->
        IF j - i = k THEN v[IF k < 0 THEN j ELSE i] ELSE Zero]])

\* np.flip(v)
Flip(v) == Stored([k \in DOMAIN v |-> v[Size(v) - 1 - k]])

\* np.roll(v, s)
Roll(v, s) == Stored([k \in DOMAIN v |-> v[(k - s) % Size(v)]])

\* scipy.linalg.toeplitz(c, r): first column c, first row r (r[0] ignored)
Toeplitz(c, r) ==
  Stored([i \in DOMAIN c |-> [j \in DOMAIN r |-> IF i >= j THEN c[i - j] ELSE r[j - i]]])

\* a * A, A + B, A - B, -A, A.T
MatScale(a, A) ==
  Stored([i \in DOMAIN A |-> [j \in DOMAIN A[i] |-> RatMul(a, A[i][j])]])
MatAdd(A, B) ==
  Stored([i \in DOMAIN A |-> [j \in DOMAIN A[i] |-> RatAdd(A[i][j], B[i][j])]])
\* (faulty variant of MatSub: Q = Q + S for Q = Q - S)
MatSubAsAdd(A, B) == MatAdd(A, B)
MatSub(A, B) ==
  Stored([i \in DOMAIN A |-> [j \in DOMAIN A[i] |-> RatSub(A[i][j], B[i][j])]])
MatNeg(A) == Stored([i \in DOMAIN A |-> [j \in DOMAIN A[i] |-> RatNeg(A[i][j])]])
Transpose(A) == Stored([i \in DOMAIN A |-> [j \in DOMAIN A |-> A[j][i]]])

\* sum over k = lo .. hi-1 of A[i][k] * B[k][j], the range halved at each
\* step (the sum is exact, so the order of the additions does not matter)
RECURSIVE DotRange(_, _, _, _, _, _)
DotRange(A, B, i, j, lo, hi) ==
  IF hi <= lo THEN Zero
  ELSE IF hi = lo + 1 THEN RatMul(A[i][lo], B[lo][j])
  ELSE RatAdd(DotRange(A, B, i, j, lo, (lo + hi) \div 2),
              DotRange(A, B, i, j, (lo + hi) \div 2, hi))

\* A @ B for square matrices of one size
MatMul(A, B) ==
  Stored([i \in DOMAIN A |-> [j \in DOMAIN B |-> DotRange(A, B, i, j, 0, Size(A))]])

\* np.tensordot(u, v, axes=0): the outer product
Outer(u, v) == Stored([i \in DOMAIN u |-> [j \in DOMAIN v |-> RatMul(u[i], v[j])]])

\* python's index k of an array of length n: negative indices count from the
\* end, anything outside -n .. n-1 raises IndexError
PyIndexOk(n, k) == -n <= k /\ k < n
PyIndex(n, k) == IF k < 0 THEN k + n ELSE k

----------------------------------------------------------------------------
(* periodic.py: the stencil tables.                                         *)

\* periodic.py 39-62: the orders of the if-chain of periodic_expl and the
\* central difference stencil of each
SupportedOrders == {2, 4, 6, 8, 10, 12}

StencilTable(order) ==
  CASE order = 2 ->
         [d |-> Arr(<<Frac(-1, 2), Zero, Frac(1, 2)>>), l |-> 1, r |-> 1]
    [] order = 4 ->
         [d |-> Arr(<<Frac(1, 12), Frac(-2, 3), Zero, Frac(2, 3), Frac(-1, 12)>>),
          l |-> 2, r |-> 2]
    [] order = 6 ->
         [d |-> Arr(<<Frac(-1, 60), Frac(3, 20), Frac(-3, 4), Zero,
                      Frac(3, 4), Frac(-3, 20), Frac(1, 60)>>),
          l |-> 3, r |-> 3]
    [] order = 8 ->
         [d |-> Arr(<<Frac(1, 280), Frac(-4, 105), Frac(1, 5), Frac(-4, 5), Zero,
                      Frac(4, 5), Frac(-1, 5), Frac(4, 105), Frac(-1, 280)>>),
          l |-> 4, r |-> 4]
    [] order = 10 ->
         [d |-> Arr(<<Frac(-1, 1260), Frac(5, 504), Frac(-5, 84), Frac(5, 21),
                      Frac(-5, 6), Zero, Frac(5, 6), Frac(-5, 21), Frac(5, 84),
                      Frac(-5, 504), Frac(1, 1260)>>),
          l |-> 5, r |-> 5]
    [] order = 12 ->
         [d |-> Arr(<<Frac(1, 5544), Frac(-1, 385), Frac(1, 56), Frac(-5, 63),
                      Frac(15, 56), Frac(-6, 7), Zero, Frac(6, 7), Frac(-15, 56),
                      Frac(5, 63), Frac(-1, 56), Frac(1, 385), Frac(-1, 5544)>>),
          l |-> 6, r |-> 6]

\* (faulty variant of Stencil: the else branch falls back to the second order stencil)
StencilFallback(order) ==
  [ok |-> TRUE, st |-> StencilTable(IF order \in SupportedOrders THEN order ELSE 2)]

\* periodic.py 39-64: the stencil selection; the else branch raises
\* NotImplementedError (ok is FALSE)
Stencil(order) ==
  IF order \in SupportedOrders THEN [ok |-> TRUE, st |-> StencilTable(order)]
  ELSE [ok |-> FALSE, st |-> << >>]

\* the integer array s, and -s
IntArr(s) == [i \in 0 .. Len(s) - 1 |-> RatInt(s[i + 1])]
NegIntArr(s) == [i \in 0 .. Len(s) - 1 |-> RatInt(-s[i + 1])]

\* periodic.py 76-107: the artificial dissipation stencil and its scale a
ADStencil(order) ==
  CASE order = 2 ->
         [d |-> IntArr(<<1, -2, 1>>), l |-> 1, r |-> 1, a |-> Frac(1, 2)]
    [] order = 4 ->
         [d |-> NegIntArr(<<1, -4, 6, -4, 1>>), l |-> 2, r |-> 2, a |-> Frac(1, 12)]
    [] order = 6 ->
         [d |-> IntArr(<<1, -6, 15, -20, 15, -6, 1>>), l |-> 3, r |-> 3,
          a |-> Frac(1, 60)]
    [] order = 8 ->
         [d |-> NegIntArr(<<1, -8, 28, -56, 70, -56, 28, -8, 1>>), l |-> 4, r |-> 4,
          a |-> Frac(1, 280)]
    [] order = 10 ->
         [d |-> IntArr(<<1, -10, 45, -120, 210, -252, 210, -120, 45, -10, 1>>),
          l |-> 5, r |-> 5, a |-> Frac(1, 1260)]
    [] order = 12 ->
         [d |-> NegIntArr(<<1, -12, 66, -220, 495, -792, 924, -792, 495, -220,
                            66, -12, 1>>),
          l |-> 6, r |-> 6, a |-> Frac(1, 5544)]

----------------------------------------------------------------------------
(* periodic.py: the circulant assembly shared by all periodic builders.     *)

\* for i in range(r+1): v[i] = d[i+l]
RECURSIVE FillRight(_, _, _, _, _)
FillRight(v, d, l, r, i) ==
  IF i >= r + 1 THEN [ok |-> TRUE, v |-> v]
  ELSE IF ~PyIndexOk(Size(v), i) THEN [ok |-> FALSE, v |-> << >>]
  ELSE FillRight([v EXCEPT ![PyIndex(Size(v), i)] = d[i + l]], d, l, r, i + 1)

\* (faulty variant of FillLeft: v[m-i-1] = d[l-i], an index off by one)
RECURSIVE FillLeftOffByOne(_, _, _, _)
FillLeftOffByOne(v, d, l, i) ==
  IF i >= l THEN [ok |-> TRUE, v |-> v]
  ELSE IF ~PyIndexOk(Size(v), Size(v) - i - 1) THEN [ok |-> FALSE, v |-> << >>]
  ELSE FillLeftOffByOne([v EXCEPT ![PyIndex(Size(v), Size(v) - i - 1)] = d[l - i]],
                        d, l, i + 1)

\* for i in range(l): v[m-i-1] = d[l-i-1]
RECURSIVE FillLeft(_, _, _, _)
FillLeft(v, d, l, i) ==
  IF i >= l THEN [ok |-> TRUE, v |-> v]
  ELSE IF ~PyIndexOk(Size(v), Size(v) - i - 1) THEN [ok |-> FALSE, v |-> << >>]
  ELSE FillLeft([v EXCEPT ![PyIndex(Size(v), Size(v) - i - 1)] = d[l - i - 1]],
                d, l, i + 1)

\* v = np.zeros(m) followed by the two loops; ok is FALSE when a loop raises
\* IndexError
StencilVector(m, d, l, r) ==
  LET right == FillRight(Zeros(m), d, l, r, 0)
  IN  IF right.ok THEN FillLeft(right.v, d, l, 0) ELSE right

\* (faulty variant of Circulant: the roll by one is missing)
CirculantNoRoll(v) == Toeplitz(Flip(v), v)

\* splg.toeplitz(np.roll(np.flip(v),1),v)
Circulant(v) == Toeplitz(Roll(Flip(v), 1), v)

----------------------------------------------------------------------------
(* periodic.py: the builders.  A call returns [status, H, Q]: status is     *)
(* "ok" or the name of the exception raised, and then H and Q are << >>.    *)

Raise(exc) == [status |-> exc, H |-> << >>, Q |-> << >>]

\* periodic.py 38-119
periodic_expl(m, h, order, use_AD) ==
  IF ~Stencil(order).ok THEN Raise("NotImplementedError")
  ELSE
    LET st == Stencil(order).st
        v  == StencilVector(m, st.d, st.l, st.r)
    IN  IF ~v.ok THEN Raise("IndexError")
        ELSE
          LET Q == Circulant(v.v)
              H == MatScale(h, Eye(m))
          IN  IF ~use_AD THEN [status |-> "ok", H |-> H, Q |-> Q]
              ELSE
                LET ad == ADStencil(order)
                    w  == StencilVector(m, ad.d, ad.l, ad.r)
                IN  IF ~w.ok THEN Raise("IndexError")
                    ELSE [status |-> "ok", H |-> H,
                          Q |-> MatSub(Q, MatScale(ad.a, Circulant(w.v)))]

\* periodic.py 138-149: the coefficients of the implicit operator; a literal
\* is written in groups of four decimal digits, most significant first
\* (a group's leading zeros dropped)
h0 ==
  BigFrac(1, <<420, 3267, 6135, 6409, 4932, 4325, 7782, 4954>>, <<704, 9220, 4430, 7928, 4250, 9761, 4594, 8443>>)
h1 ==
  BigFrac(1, <<2261, 8790, 7446, 8993, 5699, 2649, 2621, 401>>, <<8459, 645, 3169, 5141, 1011, 7137, 5138, 1316>>)
h2 ==
  BigFrac(-1, <<220, 9778, 2228, 2041, 8388, 6024, 2530, 3685>>, <<4229, 5322, 6584, 7570, 5505, 8568, 7569, 658>>)
h3 ==
  BigFrac(-1, <<15, 8194, 5765>>, <<754, 941, 5044>>)
h4 ==
  BigFrac(1, <<2, 2899, 2488>>, <<332, 3565, 1987>>)
h5 ==
  BigFrac(1, <<2721, 4243>>, <<337, 5145, 9947>>)
q1 ==
  BigFrac(1, <<96, 726, 6784, 8892, 129, 6177>>, <<195, 6008, 1711, 8229, 3167, 5052>>)
q2 ==
  BigFrac(1, <<88, 6670, 5546, 3061, 4828, 9391>>, <<978, 40, 8559, 1146, 5837, 5260>>)
q3 ==
  BigFrac(-1, <<196, 5909, 145, 6779, 4103, 4997>>, <<2934, 122, 5677, 3439, 7512, 5780>>)
q4 ==
  BigFrac(1, <<1, 2705, 1314>>, <<379, 8317, 4851>>)
q5 ==
  BigFrac(1, <<3, 8991, 724>>, <<1287, 4175, 713>>)

\* periodic.py 152-154, 165-167, 178-181: the stencils of periodic_imp
ImpStencilQ ==
  [d |-> Arr(<<RatNeg(q5), RatNeg(q4), RatNeg(q3), RatNeg(q2), RatNeg(q1), Zero,
               q1, q2, q3, q4, q5>>),
   l |-> 5, r |-> 5]

ImpStencilH ==
  [d |-> Arr(<<h5, h4, h3, h2, h1, h0, h1, h2, h3, h4, h5>>), l |-> 5, r |-> 5]

ImpADStencil ==
  [d |-> NegIntArr(<<1, -12, 66, -220, 495, -792, 924, -792, 495, -220, 66, -12, 1>>),
   l |-> 6, r |-> 6, a |-> Frac(1, 5544)]

\* periodic.py 136-193
periodic_imp(m, h, use_AD) ==
  LET vQ == StencilVector(m, ImpStencilQ.d, ImpStencilQ.l, ImpStencilQ.r)
      vH == StencilVector(m, ImpStencilH.d, ImpStencilH.l, ImpStencilH.r)
  IN  IF ~vQ.ok \/ ~vH.ok THEN Raise("IndexError")
      ELSE
        LET Q == Circulant(vQ.v)
            H == MatScale(h, Circulant(vH.v))
        IN  IF ~use_AD THEN [status |-> "ok", H |-> H, Q |-> Q]
            ELSE
              LET ad == ImpADStencil
                  w  == StencilVector(m, ad.d, ad.l, ad.r)
              IN  IF ~w.ok THEN Raise("IndexError")
                  ELSE [status |-> "ok", H |-> H,
                        Q |-> MatSub(Q, MatScale(ad.a, Circulant(w.v)))]

\* periodic.py 210-217: the closure captures h and the Q of
\* periodic_expl(m,h,order,False); an exception of periodic_expl propagates
periodic_variable_wide(m, h, order) == periodic_expl(m, h, order, FALSE)

\* np.diag(c)
Diag(c) == DiagK(c, 0)

\* (faulty variant of M_fun: -Q@C@Q, the factor 1/h is missing)
M_funUnscaled(Q, h, c) == MatMul(MatMul(MatNeg(Q), Diag(c)), Q)

\* periodic.py 212-215: M_fun(c) of the closure that captured Q and h;
\* -1/h*Q@C@Q is ((-1/h)*Q)@C@Q
M_fun(Q, h, c) ==
  MatMul(MatMul(MatScale(RatDiv(RatInt(-1), h), Q), Diag(c)), Q)

----------------------------------------------------------------------------
(* upwind.py.  A call returns [status, H, HI, Dp, Dm, e_l, e_r] and the     *)
(* record also keeps the locals Qp and Qm the properties are about.         *)

\* A[r0:r0+b, c0:c0+b] for a block that lies inside A
GetBlock(A, r0, c0, b) ==
  Stored([i \in 0 .. b - 1 |-> [j \in 0 .. b - 1 |-> A[r0 + i][c0 + j]]])

\* A[r0:r0+b, c0:c0+b] = B
SetBlock(A, r0, c0, B) ==
  Stored([i \in DOMAIN A |-> [j \in DOMAIN A[i] |->
     IF i - r0 \in DOMAIN B /\ j - c0 \in DOMAIN B THEN B[i - r0][j - c0]
     ELSE A[i][j]]])

\* np.flipud(A), np.fliplr(A)
FlipUD(A) == Stored([i \in DOMAIN A |-> A[Size(A) - 1 - i]])
FlipLR(A) ==
  Stored([i \in DOMAIN A |-> [j \in DOMAIN A[i] |-> A[i][Size(A[i]) - 1 - j]]])

\* np.linalg.inv(H) of the diagonal matrix H
DiagInv(H) ==
  Stored([i \in DOMAIN H |-> [j \in DOMAIN H |->
     IF i = j THEN RatInv(H[i][i]) ELSE Zero]])

\* the sum over k of w[k]*np.diag(np.ones(m-|k|),k): the m x m matrix with the
\* weight w[k] on its k-th diagonal
BandSum(m, w) ==
  Stored([i \in 0 .. m - 1 |-> [j \in 0 .. m - 1 |->
     IF j - i \in DOMAIN w THEN w[j - i] ELSE Zero]])

\* upwind.py 43, 52-55 (91, 100-103; 139, 148-153): the norm weights and
\* the boundary closure Qu of each order; a
\* literal 0.847e3/0.37560e5 is 847/37560, written in groups of four
\* decimal digits, most significant first (a group's leading zeros dropped)
Upwind3_Hdiag ==
  Arr(<<BigFrac(1, <<43, 4789, 9357>>, <<126, 9594, 7216>>),
        BigFrac(1, <<120, 3234, 9023>>, <<95, 2196, 412>>),
        BigFrac(1, <<328, 3141, 4215>>, <<380, 8784, 1648>>),
        BigFrac(1, <<65, 5048, 9565>>, <<63, 4797, 3608>>)>>)

Upwind3_Qu ==
  Arr(<<
    Arr(<<BigFrac(-1, <<847>>, <<3, 7560>>),
          BigFrac(1, <<79, 6044, 5849, 2699>>, <<119, 2149, 4435, 8240>>),
          BigFrac(-1, <<1, 6435, 2186, 7663>>, <<14, 9018, 6804, 4780>>),
          BigFrac(-1, <<4, 1604, 4454, 9287>>, <<119, 2149, 4435, 8240>>)>>),
    Arr(<<BigFrac(-1, <<22, 6710, 1956, 1497>>, <<39, 7383, 1478, 6080>>),
          BigFrac(-1, <<6023>>, <<3, 7560>>),
          BigFrac(1, <<91, 6280, 1132, 6497>>, <<119, 2149, 4435, 8240>>),
          BigFrac(-1, <<7496, 7168, 6919>>, <<19, 8691, 5739, 3040>>)>>),
    Arr(<<BigFrac(1, <<634, 9558, 6071>>, <<1, 2418, 2233, 7065>>),
          BigFrac(-1, <<16, 6448, 4022, 3051>>, <<39, 7383, 1478, 6080>>),
          BigFrac(-1, <<4311>>, <<1, 2520>>),
          BigFrac(1, <<104, 7572, 7313, 5509>>, <<119, 2149, 4435, 8240>>)>>),
    Arr(<<BigFrac(1, <<4, 9983, 7706, 5543>>, <<119, 2149, 4435, 8240>>),
          BigFrac(-1, <<5, 2765, 765, 1527>>, <<59, 6074, 7217, 9120>>),
          BigFrac(-1, <<12, 4768, 8834, 9687>>, <<39, 7383, 1478, 6080>>),
          BigFrac(-1, <<5919>>, <<1, 2520>>)>>)>>)

Upwind5_Hdiag ==
  Arr(<<BigFrac(1, <<251>>, <<720>>),
        BigFrac(1, <<299>>, <<240>>),
        BigFrac(1, <<211>>, <<240>>),
        BigFrac(1, <<739>>, <<720>>)>>)

Upwind5_Qu ==
  Arr(<<
    Arr(<<BigFrac(-1, <<1>>, <<120>>),
          BigFrac(1, <<941>>, <<1440>>),
          BigFrac(-1, <<47>>, <<360>>),
          BigFrac(-1, <<7>>, <<480>>)>>),
    Arr(<<BigFrac(-1, <<869>>, <<1440>>),
          BigFrac(-1, <<11>>, <<120>>),
          BigFrac(1, <<25>>, <<32>>),
          BigFrac(-1, <<43>>, <<360>>)>>),
    Arr(<<BigFrac(1, <<29>>, <<360>>),
          BigFrac(-1, <<17>>, <<32>>),
          BigFrac(-1, <<29>>, <<120>>),
          BigFrac(1, <<1309>>, <<1440>>)>>),
    Arr(<<BigFrac(1, <<1>>, <<32>>),
          BigFrac(-1, <<11>>, <<360>>),
          BigFrac(-1, <<661>>, <<1440>>),
          BigFrac(-1, <<13>>, <<40>>)>>)>>)

Upwind7_Hdiag ==
  Arr(<<BigFrac(1, <<1, 9087>>, <<6, 480>>),
        BigFrac(1, <<8, 4199>>, <<6, 480>>),
        BigFrac(1, <<1, 8869>>, <<3, 240>>),
        BigFrac(1, <<3, 7621>>, <<3, 240>>),
        BigFrac(1, <<5, 5031>>, <<6, 480>>),
        BigFrac(1, <<6, 1343>>, <<6, 480>>)>>)

Upwind7_Qu ==
  Arr(<<
    Arr(<<BigFrac(-1, <<265>>, <<30, 272>>),
          BigFrac(1, <<15, 8794, 5773>>, <<24, 3220, 3200>>),
          BigFrac(-1, <<192, 6361>>, <<2573, 7600>>),
          BigFrac(-1, <<8439, 8989>>, <<8, 1073, 4400>>),
          BigFrac(1, <<4878, 1961>>, <<48, 6440, 6400>>),
          BigFrac(1, <<342, 9119>>, <<2, 268, 3600>>)>>),
    Arr(<<BigFrac(-1, <<15, 7012, 5773>>, <<24, 3220, 3200>>),
          BigFrac(-1, <<2, 6517>>, <<150, 1360>>),
          BigFrac(1, <<2, 4002, 9831>>, <<4, 8644, 640>>),
          BigFrac(1, <<2, 293, 4303>>, <<9, 7288, 1280>>),
          BigFrac(1, <<11, 8207>>, <<1351, 2240>>),
          BigFrac(-1, <<2, 3135, 7719>>, <<48, 6440, 6400>>)>>),
    Arr(<<BigFrac(1, <<162, 6361>>, <<2573, 7600>>),
          BigFrac(-1, <<2, 693, 7767>>, <<4, 8644, 640>>),
          BigFrac(-1, <<6, 1067>>, <<75, 680>>),
          BigFrac(1, <<4960, 2727>>, <<8107, 3440>>),
          BigFrac(-1, <<4378, 3933>>, <<1, 9457, 6256>>),
          BigFrac(1, <<5181, 5011>>, <<8, 1073, 4400>>)>>),
    Arr(<<BigFrac(1, <<9141, 8989>>, <<8, 1073, 4400>>),
          BigFrac(-1, <<5331, 4099>>, <<1, 9457, 6256>>),
          BigFrac(-1, <<3309, 4279>>, <<8107, 3440>>),
          BigFrac(-1, <<1, 8269>>, <<10, 7240>>),
          BigFrac(1, <<4, 4062, 6231>>, <<4, 8644, 640>>),
          BigFrac(-1, <<3, 6571, 1063>>, <<16, 2146, 8800>>)>>),
    Arr(<<BigFrac(-1, <<6255, 1961>>, <<48, 6440, 6400>>),
          BigFrac(1, <<799>>, <<3, 5280>>),
          BigFrac(1, <<8258, 8241>>, <<9, 7288, 1280>>),
          BigFrac(-1, <<2, 7924, 5719>>, <<4, 8644, 640>>),
          BigFrac(-1, <<34, 6583>>, <<150, 1360>>),
          BigFrac(1, <<23, 1230, 2333>>, <<24, 3220, 3200>>)>>),
    Arr(<<BigFrac(-1, <<337, 5119>>, <<2, 268, 3600>>),
          BigFrac(1, <<2, 208, 7559>>, <<48, 6440, 6400>>),
          BigFrac(-1, <<1129, 7731>>, <<8, 1073, 4400>>),
          BigFrac(1, <<6100, 8503>>, <<16, 2146, 8800>>),
          BigFrac(-1, <<13, 6009, 2253>>, <<24, 3220, 3200>>),
          BigFrac(-1, <<1, 677>>, <<4, 2896>>)>>)>>)

RaiseUpwind(exc) ==
  [status |-> exc, H |-> << >>, HI |-> << >>, Dp |-> << >>, Dm |-> << >>,
   e_l |-> << >>, e_r |-> << >>, Qp |-> << >>, Qm |-> << >>]

\* upwind.py 49, 97, 145: the interior stencils on the diagonals of Qp
Interior3(m) ==
  BandSum(m, -1 :> Frac(-1, 3) @@ 0 :> Frac(-1, 2) @@ 1 :> One @@ 2 :> Frac(-1, 6))

Interior5(m) ==
  BandSum(m, -2 :> Frac(1, 20) @@ -1 :> Frac(-1, 2) @@ 0 :> Frac(-1, 3) @@ 1 :> One
             @@ 2 :> Frac(-1, 4) @@ 3 :> Frac(1, 30))

Interior7(m) ==
  BandSum(m, -3 :> Frac(-1, 105) @@ -2 :> Frac(1, 10) @@ -1 :> Frac(-3, 5)
             @@ 0 :> Frac(-1, 4) @@ 1 :> One @@ 2 :> Frac(-3, 10)
             @@ 3 :> Frac(1, 15) @@ 4 :> Frac(-1, 140))

\* upwind.py 42-45 (90-93, 138-141): the norm H
UpwindNorm(m, h, b, Hdiag) ==
  LET H0 == DiagK(Ones(m), 0)
      H1 == SetBlock(H0, 0, 0, DiagK(Hdiag, 0))
      H2 == SetBlock(H1, m - b, m - b, FlipLR(FlipUD(GetBlock(H1, 0, 0, b))))
  IN  MatScale(h, H2)

\* (faulty variant of UpwindClosure: the trailing block is flipped but not transposed)
UpwindClosureNoTranspose(Qint, m, b, Qu) ==
  SetBlock(SetBlock(Qint, 0, 0, Qu), m - b, m - b, FlipUD(FlipLR(Qu)))

\* upwind.py 57-58 (105-106, 156-157): the closure blocks written into Qp
UpwindClosure(Qint, m, b, Qu) ==
  SetBlock(SetBlock(Qint, 0, 0, Qu), m - b, m - b, Transpose(FlipUD(FlipLR(Qu))))

\* (faulty variant of NegTranspose: Qm = -Qp)
NegOnly(Qp) == MatNeg(Qp)

\* upwind.py 60 (108, 159): Qm = -Qp.T
NegTranspose(Qp) == MatNeg(Transpose(Qp))

\* (faulty variant of Corrected: both boundary terms are subtracted)
CorrectedSameSign(Q, e_l, e_r) ==
  MatSub(MatSub(Q, MatScale(Frac(1, 2), Outer(e_l, e_l))),
         MatScale(Frac(1, 2), Outer(e_r, e_r)))

\* upwind.py 62: Q - 0.5*np.tensordot(e_l,e_l,axes=0) + 0.5*np.tensordot(e_r,e_r,axes=0)
Corrected(Q, e_l, e_r) ==
  MatAdd(MatSub(Q, MatScale(Frac(1, 2), Outer(e_l, e_l))),
         MatScale(Frac(1, 2), Outer(e_r, e_r)))

\* upwind.py 36-65 (84-113, 132-164): the body the three builders share;
\* b is the closure size, Qint the interior stencil matrix.  The assignment
\* H[0:b,0:b] = ... raises ValueError when m < b
Upwind(m, h, b, Hdiag, Qint, Qu) ==
  IF m < b THEN RaiseUpwind("ValueError")
  ELSE
    LET e_l == [Zeros(m) EXCEPT ![PyIndex(m, 0)] = One]
        e_r == [Zeros(m) EXCEPT ![PyIndex(m, -1)] = One]
        H   == UpwindNorm(m, h, b, Hdiag)
        HI  == DiagInv(H)
        Qp  == UpwindClosure(Qint, m, b, Qu)
        Qm  == NegTranspose(Qp)
    IN  [status |-> "ok", e_l |-> e_l, e_r |-> e_r, H |-> H, HI |-> HI,
         Qp |-> Qp, Qm |-> Qm,
         Dp |-> MatMul(HI, Corrected(Qp, e_l, e_r)),
         Dm |-> MatMul(HI, Corrected(Qm, e_l, e_r))]

\* upwind.py 35-65
sbp_upwind_3rd(m, h) ==
  Upwind(m, h, 4, Upwind3_Hdiag, Interior3(m), Upwind3_Qu)

\* upwind.py 83-113
sbp_upwind_5th(m, h) ==
  Upwind(m, h, 4, Upwind5_Hdiag, Interior5(m), Upwind5_Qu)

\* upwind.py 131-164
sbp_upwind_7th(m, h) ==
  Upwind(m, h, 6, Upwind7_Hdiag, Interior7(m), Upwind7_Qu)

----------------------------------------------------------------------------
(* The callers.  A behaviour is one call of a builder with arguments drawn  *)
(* from bounded sets; the closure returned by periodic_variable_wide is     *)
(* then called any number of times, the last three calls being kept.        *)

VARIABLES
  fn,      \* the function called
  m,       \* number of grid points
  h,       \* step size
  order,   \* order of accuracy (0 where the function takes none)
  use_AD,  \* artificial dissipation requested
  pc,      \* "start", "done" (returned or raised), "closure" (M_fun returned)
  ret,     \* what the call returned: [status, H, Q, ...]
  calls    \* the last calls of M_fun, oldest first: [c, M]

vars == <<fn, m, h, order, use_AD, pc, ret, calls>>

\* grid sizes 1 .. MaxM and orders 1 .. MaxOrder are tried by the periodic
\* builders, grid sizes 1 .. MaxMVar by the closure calls
MaxM == 13
MaxOrder == 13
MaxMVar == 7

\* the step sizes tried
HSet == {RatInt(1), Frac(1, 2)}

\* the coefficient arrays M_fun is called with: c[k] = 1, c[k] = k+1 and
\* c[k] = 1-k (twice the first minus the second)
CoefOnes(n) == [k \in 0 .. n - 1 |-> RatInt(1)]
CoefRamp(n) == [k \in 0 .. n - 1 |-> RatInt(k + 1)]
CoefMix(n) == [k \in 0 .. n - 1 |-> RatInt(1 - k)]
Coefs(n) == {CoefOnes(n), CoefRamp(n), CoefMix(n)}

NoRet == [status |-> "none", H |-> << >>, Q |-> << >>]

InitPeriodic ==
  /\ fn \in {"periodic_expl", "periodic_imp", "periodic_variable_wide"}
  /\ m \in 1 .. MaxM
  /\ h \in HSet
  /\ order \in (IF fn = "periodic_imp" THEN {0} ELSE 1 .. MaxOrder)
  /\ use_AD \in (IF fn = "periodic_variable_wide" THEN {FALSE} ELSE BOOLEAN)
  /\ pc = "start"
  /\ ret = NoRet
  /\ calls = << >>

InitVariable ==
  /\ fn = "periodic_variable_wide"
  /\ m \in 1 .. MaxMVar
  /\ h \in HSet
  /\ order \in 1 .. MaxOrder
  /\ use_AD = FALSE
  /\ pc = "start"
  /\ ret = NoRet
  /\ calls = << >>

\* H,Q = periodic_expl(m,h,order,use_AD)
CallPeriodicExpl ==
  /\ pc = "start" /\ fn = "periodic_expl"
  /\ ret' = periodic_expl(m, h, order, use_AD)
  /\ pc' = "done"
  /\ UNCHANGED <<fn, m, h, order, use_AD, calls>>

\* H,Q = periodic_imp(m,h,use_AD)
CallPeriodicImp ==
  /\ pc = "start" /\ fn = "periodic_imp"
  /\ ret' = periodic_imp(m, h, use_AD)
  /\ pc' = "done"
  /\ UNCHANGED <<fn, m, h, order, use_AD, calls>>

\* M_fun = periodic_variable_wide(m,h,order)
CallPeriodicVariableWide ==
  /\ pc = "start" /\ fn = "periodic_variable_wide"
  /\ ret' = periodic_variable_wide(m, h, order)
  /\ pc' = IF ret'.status = "ok" THEN "closure" ELSE "done"
  /\ UNCHANGED <<fn, m, h, order, use_AD, calls>>

\* M = M_fun(c): reads the captured Q and h, writes neither
CallMFun ==
  /\ pc = "closure"
  /\ \E c \in Coefs(m) :
       calls' = (IF Len(calls) = 3 THEN Tail(calls) ELSE calls)
                  \o <<[c |-> c, M |-> M_fun(ret.Q, h, c)]>>
  /\ UNCHANGED <<fn, m, h, order, use_AD, pc, ret>>

NextPeriodic == CallPeriodicExpl \/ CallPeriodicImp \/ CallPeriodicVariableWide

SpecPeriodic == InitPeriodic /\ [][NextPeriodic]_vars

NextVariable == CallPeriodicVariableWide \/ CallMFun

SpecVariable == InitVariable /\ [][NextVariable]_vars

\* grid sizes 1 .. MaxMUp are tried by the upwind builders
MaxMUp == 13

InitUpwind ==
  /\ fn \in {"sbp_upwind_3rd", "sbp_upwind_5th", "sbp_upwind_7th"}
  /\ m \in 1 .. MaxMUp
  /\ h \in HSet
  /\ order = 0
  /\ use_AD = FALSE
  /\ pc = "start"
  /\ ret = RaiseUpwind("none")
  /\ calls = << >>

\* H,HI,Dp,Dm,e_l,e_r = sbp_upwind_3rd(m,h)
CallUpwind3rd ==
  /\ pc = "start" /\ fn = "sbp_upwind_3rd"
  /\ ret' = sbp_upwind_3rd(m, h)
  /\ pc' = "done"
  /\ UNCHANGED <<fn, m, h, order, use_AD, calls>>

\* H,HI,Dp,Dm,e_l,e_r = sbp_upwind_5th(m,h)
CallUpwind5th ==
  /\ pc = "start" /\ fn = "sbp_upwind_5th"
  /\ ret' = sbp_upwind_5th(m, h)
  /\ pc' = "done"
  /\ UNCHANGED <<fn, m, h, order, use_AD, calls>>

\* H,HI,Dp,Dm,e_l,e_r = sbp_upwind_7th(m,h)
CallUpwind7th ==
  /\ pc = "start" /\ fn = "sbp_upwind_7th"
  /\ ret' = sbp_upwind_7th(m, h)
  /\ pc' = "done"
  /\ UNCHANGED <<fn, m, h, order, use_AD, calls>>

NextUpwind == CallUpwind3rd \/ CallUpwind5th \/ CallUpwind7th

SpecUpwind == InitUpwind /\ [][NextUpwind]_vars

----------------------------------------------------------------------------
(* Properties of the periodic builders (checked under SpecPeriodic).        *)

Idx == 0 .. m - 1

\* the weight of the stencil d of half-width l that row i of the wrapped
\* m x m matrix has in column j: d[l+k] when j - i = k modulo m with
\* -l <= k <= l, and 0 when there is no such k
StencilAt(d, l, i, j) ==
  LET ks == {k \in -l .. l : (j - i - k) % m = 0}
  IN  IF ks = {} THEN Zero ELSE d[l + (CHOOSE k \in ks : TRUE)]

\* sum over j = lo .. hi-1 of row[j]
RECURSIVE SumRange(_, _, _)
SumRange(row, lo, hi) ==
  IF hi <= lo THEN Zero
  ELSE IF hi = lo + 1 THEN row[lo]
  ELSE RatAdd(SumRange(row, lo, (lo + hi) \div 2),
              SumRange(row, (lo + hi) \div 2, hi))

\* sum over j of A[i][j]
RowSum(A, i) == SumRange(A[i], 0, Size(A[i]))

IsSkew(A) == \A i, j \in DOMAIN A : RatIsZero(RatAdd(A[i][j], A[j][i]))

\* a supported order with a grid larger than twice its half-width order/2
ExplFits ==
  fn = "periodic_expl" /\ order \in {2, 4, 6, 8, 10, 12} /\ m > 2 * (order \div 2)

\* C1: periodic_expl without dissipation, for a supported order and
\* m > 2*l, returns a skew-symmetric Q (Q[i][j] + Q[j][i] = 0 for all i, j)
\* and H = h * Identity
C1_SkewSymmetricQAndScaledIdentityH ==
  (pc = "done" /\ ExplFits /\ ~use_AD) =>
    /\ ret.status = "ok"
    /\ DOMAIN ret.Q = Idx /\ DOMAIN ret.H = Idx
    /\ \A i, j \in Idx :
         /\ RatIsZero(RatAdd(ret.Q[i][j], ret.Q[j][i]))
         /\ RatEq(ret.H[i][j], IF i = j THEN h ELSE Zero)

C1_Witness ==
  /\ pc = "done" /\ ExplFits /\ ~use_AD /\ order = 12 /\ h = Frac(1, 2)
  /\ ret.status = "ok"
  /\ ~RatIsZero(ret.Q[0][6]) /\ ~RatIsZero(ret.Q[7][0])

\* C2: the circulant assembly puts d[l+k] at (i, j) when j - i = k modulo m
\* for some -l <= k <= r and 0 elsewhere (periodic_expl and the Q of
\* periodic_imp, without dissipation, m > l + r); periodic_expl(8, 1, 2)
\* has 1/2 at (i, i+1 mod 8), -1/2 at (i, i-1 mod 8), 0 elsewhere, and H is
\* the identity
C2_CirculantEntries ==
  /\ (pc = "done" /\ ExplFits /\ ~use_AD) =>
       /\ ret.status = "ok"
       /\ \A i, j \in Idx :
            RatEq(ret.Q[i][j],
                  StencilAt(StencilTable(order).d, order \div 2, i, j))
  /\ (pc = "done" /\ fn = "periodic_imp" /\ m > 10 /\ ~use_AD) =>
       /\ ret.status = "ok"
       /\ \A i, j \in Idx :
            RatEq(ret.Q[i][j], StencilAt(ImpStencilQ.d, 5, i, j))
  /\ (pc = "done" /\ fn = "periodic_expl" /\ m = 8 /\ h = RatInt(1) /\ order = 2
        /\ ~use_AD) =>
       /\ ret.status = "ok"
       /\ \A i, j \in 0 .. 7 :
            /\ ret.Q[i][j] = (IF j = (i + 1) % 8 THEN Frac(1, 2)
                              ELSE IF j = (i + 7) % 8 THEN Frac(-1, 2)
                              ELSE Zero)
            /\ ret.H[i][j] = (IF i = j THEN One ELSE Zero)

C2_Witness ==
  /\ pc = "done" /\ fn = "periodic_expl" /\ m = 8 /\ h = RatInt(1) /\ order = 2
  /\ ~use_AD /\ ret.status = "ok"
  /\ ret.Q[0][7] = Frac(-1, 2) /\ ret.Q[7][0] = Frac(1, 2)

\* C4 (as claimed; the code does not do this): a builder called with a
\* grid too small for its stencil (periodic_expl with m <= 2*l, periodic_imp
\* with m <= 10) fails and returns no matrix
C4_NoOperatorOnTooSmallGrid ==
  (/\ pc = "done"
   /\ \/ fn = "periodic_expl" /\ order \in {2, 4, 6, 8, 10, 12}
           /\ m <= 2 * (order \div 2)
      \/ fn = "periodic_imp" /\ m <= 10) =>
    ret.status # "ok"

\* the calls the zero-row-sum property is about: periodic_expl with a
\* supported order and m > 2*l, periodic_imp with m > 10
RowSumCase ==
  /\ pc = "done"
  /\ \/ ExplFits
     \/ fn = "periodic_imp" /\ m > 10

\* C5 (as claimed; the code does not do this): every row of Q sums to zero,
\* with and without dissipation, for periodic_expl with a supported order and
\* m > 2*l and for periodic_imp with every m > 10
C5_ZeroRowSumsAbove10 ==
  RowSumCase =>
    /\ ret.status = "ok"
    /\ \A i \in Idx : RatIsZero(RowSum(ret.Q, i))

\* the calls with dissipation the skew-symmetry property is about
DissipationCase ==
  /\ pc = "done" /\ use_AD /\ ret.status = "ok"
  /\ ExplFits \/ fn = "periodic_imp"

\* C6 (as claimed): the Q returned with use_AD=True is skew-symmetric
C6_SkewSymmetricWithDissipation == DissipationCase => IsSkew(ret.Q)

\* C6 (amended): with use_AD=True the returned Q is Q0 - S, where Q0 is the
\* skew-symmetric circulant of the difference stencil and S = a * circulant
\* of the dissipation stencil is symmetric and not zero: for all i, j,
\* Q[i][j] + Q[j][i] = -2*S[i][j] and Q[i][j] - Q[j][i] = 2*Q0[i][j], and the
\* diagonal Q[i][i] = -S[i][i] is not zero, so Q is not skew-symmetric
\* (periodic_expl with a supported order and m > 2*l; periodic_imp with
\* m > 12)
C6_SymmetricPartIsDissipation ==
  (/\ pc = "done" /\ use_AD
   /\ ExplFits \/ (fn = "periodic_imp" /\ m > 12)) =>
    LET st == IF fn = "periodic_imp" THEN ImpStencilQ ELSE StencilTable(order)
        ad == IF fn = "periodic_imp" THEN ImpADStencil ELSE ADStencil(order)
    IN  /\ ret.status = "ok"
        /\ \A i, j \in Idx :
             /\ RatEq(RatAdd(ret.Q[i][j], ret.Q[j][i]),
                      RatMul(RatInt(-2),
                             RatMul(ad.a, StencilAt(ad.d, ad.l, i, j))))
             /\ RatEq(RatSub(ret.Q[i][j], ret.Q[j][i]),
                      RatMul(RatInt(2), StencilAt(st.d, st.l, i, j)))
             /\ RatEq(StencilAt(ad.d, ad.l, i, j), StencilAt(ad.d, ad.l, j, i))
        /\ \A i \in Idx : ~RatIsZero(ret.Q[i][i])

C6_Witness ==
  /\ pc = "done" /\ use_AD /\ fn = "periodic_imp" /\ m = 13 /\ ret.status = "ok"
  /\ ~RatIsZero(RatAdd(ret.Q[0][1], ret.Q[1][0]))
  /\ ~RatIsZero(RatSub(ret.Q[0][1], ret.Q[1][0]))

\* C9: an order outside {2,4,6,8,10,12} makes periodic_expl raise
\* NotImplementedError (the code's unsupported-order error) for every m, h
\* and use_AD, also when m is too small for any stencil, and no matrix is
\* returned; periodic_variable_wide raises the same and returns no closure
C9_UnsupportedOrderRaises ==
  (/\ pc # "start"
   /\ fn \in {"periodic_expl", "periodic_variable_wide"}
   /\ order \notin {2, 4, 6, 8, 10, 12}) =>
    /\ ret.status = "NotImplementedError"
    /\ ret.H = << >> /\ ret.Q = << >>
    /\ pc = "done" /\ calls = << >>

C9_Witness ==
  /\ pc = "done" /\ fn = "periodic_expl" /\ order = 3 /\ m = 1 /\ use_AD
  /\ ret.status = "NotImplementedError" /\ ret.Q = << >>

----------------------------------------------------------------------------
(* Properties of the closure of periodic_variable_wide (under SpecVariable). *)

\* sum over k = lo .. hi-1 of Q[i][k] * c[k] * Q[k][j]
RECURSIVE TripleSum(_, _, _, _, _, _)
TripleSum(Q, c, i, j, lo, hi) ==
  IF hi <= lo THEN Zero
  ELSE IF hi = lo + 1 THEN RatMul(RatMul(Q[i][lo], c[lo]), Q[lo][j])
  ELSE RatAdd(TripleSum(Q, c, i, j, lo, (lo + hi) \div 2),
              TripleSum(Q, c, i, j, (lo + hi) \div 2, hi))

\* the scalars of the linear combinations tried
Scalars == {-1, 1, 2}

\* C8: every call M_fun(c) of the closure returns -(1/h)*Q*diag(c)*Q for
\* the Q of periodic_expl(m, h, order, False), whatever was called before
\* (the captured Q stays that Q); so M(a*c1 + b*c2) = a*M(c1) + b*M(c2) for
\* the calls made, and M(ones) = -(1/h)*Q*Q
C8_ClosureIsLinearQCQ ==
  pc = "closure" =>
    LET Q0 == periodic_expl(m, h, order, FALSE).Q
        QQ == MatMul(Q0, Q0)
        N  == 1 .. Len(calls)
    IN  /\ ret.status = "ok" /\ ret.Q = Q0
        /\ \A n \in N : \A i, j \in Idx :
             /\ RatEq(calls[n].M[i][j],
                      RatNeg(RatDiv(TripleSum(Q0, calls[n].c, i, j, 0, m), h)))
             /\ calls[n].c = CoefOnes(m) =>
                  RatEq(calls[n].M[i][j], RatNeg(RatDiv(QQ[i][j], h)))
        /\ \A x, y, z \in N : \A a, b \in Scalars :
             (\A k \in Idx :
                RatEq(calls[z].c[k],
                      RatAdd(RatMul(RatInt(a), calls[x].c[k]),
                             RatMul(RatInt(b), calls[y].c[k]))))
             => \A i, j \in Idx :
                  RatEq(calls[z].M[i][j],
                        RatAdd(RatMul(RatInt(a), calls[x].M[i][j]),
                               RatMul(RatInt(b), calls[y].M[i][j])))

C8_Witness ==
  /\ pc = "closure" /\ order = 6 /\ m = 7 /\ h = Frac(1, 2)
  /\ Len(calls) = 3
  /\ calls[1].c = CoefOnes(m) /\ calls[2].c = CoefRamp(m) /\ calls[3].c = CoefMix(m)
  /\ ~RatIsZero(calls[3].M[0][0])
  /\ ~RatEq(calls[3].M[0][0], calls[1].M[0][0])

----------------------------------------------------------------------------
(* Properties of the upwind builders (checked under SpecUpwind).            *)

\* the size b of the boundary closure: 4 for orders 3 and 5, 6 for order 7
ClosureSize == IF fn = "sbp_upwind_7th" THEN 6 ELSE 4

\* e_r e_r^T - e_l e_l^T: -1 at (0,0), +1 at (m-1,m-1), 0 elsewhere
BoundaryForm(i, j) ==
  IF i = 0 /\ j = 0 THEN RatInt(-1)
  ELSE IF i = m - 1 /\ j = m - 1 THEN RatInt(1)
  ELSE Zero

\* twice the diagonal weight of the interior stencil: -1, -2/3, -1/2
TwiceInteriorDiagonal ==
  IF fn = "sbp_upwind_3rd" THEN RatInt(-1)
  ELSE IF fn = "sbp_upwind_5th" THEN Frac(-2, 3)
  ELSE Frac(-1, 2)

\* C3 (as claimed): for m > 2*b, Qp[i][j] + Qp[j][i] = e_r[i]*e_r[j] -
\* e_l[i]*e_l[j] for all i, j
C3_QpPlusTransposeIsBoundaryForm ==
  (pc = "done" /\ m > 2 * ClosureSize) =>
    /\ ret.status = "ok"
    /\ \A i, j \in Idx :
         RatEq(RatAdd(ret.Qp[i][j], ret.Qp[j][i]),
               RatSub(RatMul(ret.e_r[i], ret.e_r[j]),
                      RatMul(ret.e_l[i], ret.e_l[j])))

\* C3 (amended): for m > 2*b the boundary form is that of the pair, not of
\* Qp alone: Qp[i][j] + Qm[j][i] = 0, and with the corrections folded in,
\* (H*Dp)[i][j] + (H*Dm)[j][i] = e_r[i]*e_r[j] - e_l[i]*e_l[j], which is -1
\* at (0,0), +1 at (m-1,m-1) and 0 elsewhere; Qp + transpose(Qp) itself has
\* the diagonal entries -1, -2/3, -1/2 (orders 3, 5, 7) at every interior
\* row b <= i < m-b
C3_PairSatisfiesBoundaryForm ==
  (pc = "done" /\ m > 2 * ClosureSize) =>
    /\ ret.status = "ok"
    /\ LET HDp == MatMul(ret.H, ret.Dp)
           HDm == MatMul(ret.H, ret.Dm)
       IN  \A i, j \in Idx :
             /\ RatIsZero(RatAdd(ret.Qp[i][j], ret.Qm[j][i]))
             /\ RatEq(RatAdd(HDp[i][j], HDm[j][i]), BoundaryForm(i, j))
             /\ RatEq(RatSub(RatMul(ret.e_r[i], ret.e_r[j]),
                             RatMul(ret.e_l[i], ret.e_l[j])),
                      BoundaryForm(i, j))
    /\ \A i \in ClosureSize .. m - ClosureSize - 1 :
         RatEq(RatAdd(ret.Qp[i][i], ret.Qp[i][i]), TwiceInteriorDiagonal)

C3_Witness ==
  /\ pc = "done" /\ fn = "sbp_upwind_3rd" /\ m = 9 /\ ret.status = "ok"
  /\ RatEq(ret.Qp[4][4], Frac(-1, 2))
  /\ ~RatIsZero(ret.Qp[0][1]) /\ ~RatIsZero(ret.Dp[8][8])

\* C7: for m >= 2*b, Qm[i][j] = -Qp[j][i] for all i, j; so Qp + Qm is
\* skew-symmetric and K = H*(Dp + Dm)/2 satisfies K + transpose(K) =
\* e_r e_r^T - e_l e_l^T
C7_QmIsNegTransposeAndCenteredSBP ==
  (pc = "done" /\ m >= 2 * ClosureSize) =>
    /\ ret.status = "ok"
    /\ LET K == MatScale(Frac(1, 2), MatMul(ret.H, MatAdd(ret.Dp, ret.Dm)))
       IN  \A i, j \in Idx :
             /\ RatEq(ret.Qm[i][j], RatNeg(ret.Qp[j][i]))
             /\ RatIsZero(RatAdd(RatAdd(ret.Qp[i][j], ret.Qm[i][j]),
                                 RatAdd(ret.Qp[j][i], ret.Qm[j][i])))
             /\ RatEq(RatAdd(K[i][j], K[j][i]), BoundaryForm(i, j))

C7_Witness ==
  /\ pc = "done" /\ fn = "sbp_upwind_7th" /\ m = 12 /\ ret.status = "ok"
  /\ ~RatIsZero(ret.Qm[0][5]) /\ ~RatIsZero(ret.Qm[11][6])
  /\ ~RatEq(ret.Qp[0][5], ret.Qm[0][5])

\* C10: for m >= 2*b the pair is mirror symmetric: H[i][i] =
\* H[m-1-i][m-1-i], Qp[m-1-i][m-1-j] = Qp[j][i] and Dm[i][j] =
\* -Dp[m-1-i][m-1-j] for all i, j
C10_ReflectionSymmetry ==
  (pc = "done" /\ m >= 2 * ClosureSize) =>
    /\ ret.status = "ok"
    /\ \A i, j \in Idx :
         /\ RatEq(ret.H[i][i], ret.H[m - 1 - i][m - 1 - i])
         /\ RatEq(ret.Qp[m - 1 - i][m - 1 - j], ret.Qp[j][i])
         /\ RatEq(ret.Dm[i][j], RatNeg(ret.Dp[m - 1 - i][m - 1 - j]))

C10_Witness ==
  /\ pc = "done" /\ fn = "sbp_upwind_5th" /\ m = 8 /\ ret.status = "ok"
  /\ ~RatIsZero(ret.Qp[7][4]) /\ ~RatEq(ret.Qp[7][4], ret.Qp[4][7])
  /\ ~RatEq(ret.H[0][0], ret.H[1][1])

=============================================================================
